---- MODULE Spec2Model ----
(***************************************************************************)
(* UK election map dashboard: election_map.py (one cached loader, view 1)  *)
(* and extended_app.py (three cached loaders, view 1 and the LSOA          *)
(* drill-down view).  A state is one process of one of the two programs:   *)
(* the data its sources hold, its st.cache_data caches, and what the last  *)
(* rendering pass (one run of the script) computed and displayed.          *)
(***************************************************************************)
EXTENDS Integers, Sequences, FiniteSets, TLC

VARIABLES
    app,      \* which script this process runs: "election_map" | "extended_app"
    world,    \* what each remote URL / local file yields when it is read
    cache,    \* the st.cache_data store of every cached loader, by argument
    fetched,  \* how many times each source has been read so far, by loader argument
    first,    \* history: what each cached loader returned on its first call, by argument
    out       \* the last rendering pass: its input, what it loaded, computed and showed

vars == <<app, world, cache, fetched, first, out>>

-----------------------------------------------------------------------------
(* Bounds of the model *)

\* boundary rows in a constituency collection
MaxB == 2
\* rows in a results table
MaxRows == 2
\* rows in the LSOA layer
MaxL == 2
\* the read counters stop counting here
MaxFetch == 2

\* the election years the model selects (two of the five registered years:
\* the 2024 boundaries with their own URL and columns, and a year on the 2019 boundaries)
Years == {"2024", "2010"}

-----------------------------------------------------------------------------
(* Dataset registry *)

URL2024 == "Westminster_Parliamentary_Constituencies_July_2024_Boundaries_UK_BUC"
URL2019 == "b611e223cb4a4e0ea12b87ac46d03810_0"
LSOA_GEOJSON_URL == "04c65a08ecff4858bffc16e9ca9356f4_0"

ELECTION_DATA ==
    [y \in {"2024", "2019", "2017", "2015", "2010"} |->
        [geojson_url  |-> IF y = "2024" THEN URL2024 ELSE URL2019,
         results_file |-> CASE y = "2024" -> "HoC-GE2024-results-by-constituency.csv"
                            [] y = "2019" -> "HoC-GE2019-results-by-constituency.csv"
                            [] y = "2017" -> "HoC-GE2017-results-by-constituency.csv"
                            [] y = "2015" -> "HoC-GE2015-results-by-constituency.csv"
                            [] y = "2010" -> "HoC-GE2010-results-by-constituency.csv",
         geo_name_col |-> IF y = "2024" THEN "PCON24NM" ELSE "pcon19nm",
         geo_code_col |-> IF y = "2024" THEN "PCON24CD" ELSE "pcon19cd"]]

Urls == {ELECTION_DATA[y].geojson_url : y \in Years} \cup {LSOA_GEOJSON_URL}
Files == {ELECTION_DATA[y].results_file : y \in Years}

\* what a cached loader reads for an argument: the boundaries and the results
\* of a year, and the LSOA layer
Reads == ({"geojson", "csv"} \X Years) \cup {<<"geojson", "lsoas">>}

master_party_colors ==
    [p \in {"Lab", "Con", "LD", "SNP", "Reform", "Green", "PC", "DUP", "SF",
            "Alliance", "Speaker", "Others", "UKIP", "BRX", "KHHC"} |->
        CASE p = "Lab" -> "#E4003B"
          [] p = "Con" -> "#0087DC"
          [] p = "LD" -> "#FAA61A"
          [] p = "SNP" -> "#FDF000"
          [] p = "Reform" -> "#12B6CF"
          [] p = "Green" -> "#6AB023"
          [] p = "PC" -> "#008142"
          [] p = "DUP" -> "#D46A4C"
          [] p = "SF" -> "#326760"
          [] p = "Alliance" -> "#F6CB2F"
          [] p = "Speaker" -> "#808080"
          [] p = "Others" -> "#808080"
          [] p = "UKIP" -> "#70147A"
          [] p = "BRX" -> "#12B6CF"
          [] p = "KHHC" -> "#008080"]

-----------------------------------------------------------------------------
(* Tables.  A DataFrame / GeoDataFrame is its ordered column names and its  *)
(* rows, each row the cells in column order.  Cells are strings; the        *)
(* geometry cell is the set of points the region covers.                    *)

\* pandas' missing value
NaN == "NaN"
\* Python's None, as a loader returns it
None == [kind |-> "None"]

DataFrame(cols, rows) == [kind |-> "DataFrame", cols |-> cols, rows |-> rows]
GeoDataFrame(cols, rows, crs) ==
    [kind |-> "GeoDataFrame", cols |-> cols, rows |-> rows, crs |-> crs]

\* `c in df.columns`
HasCol(df, c) == \E i \in 1..Len(df.cols) : df.cols[i] = c

\* position of the (first) column named c
ColIdx(df, c) == CHOOSE i \in 1..Len(df.cols) :
                    /\ df.cols[i] = c
                    /\ \A j \in 1..(i - 1) : df.cols[j] # c

\* a column added with no value in it
AddColumnEmpty(df, c, v) ==
    [df EXCEPT !.cols = Append(df.cols, c),
               !.rows = [i \in 1..Len(df.rows) |-> Append(df.rows[i], NaN)]]

\* df[c] = v  for a column that is not there yet: appended, v in every row
AddColumn(df, c, v) ==
    [df EXCEPT !.cols = Append(df.cols, c),
               !.rows = [i \in 1..Len(df.rows) |-> Append(df.rows[i], v)]]

\* df.rename(columns=mapping): every column whose name is a key gets the mapped name
rename(df, mapping) ==
    [df EXCEPT !.cols = [i \in 1..Len(df.cols) |->
                            IF df.cols[i] \in DOMAIN mapping
                            THEN mapping[df.cols[i]] ELSE df.cols[i]]]

\* the rows of `right` whose key equals k, in order
RECURSIVE Matching(_, _, _)
Matching(rows, idx, k) ==
    IF rows = <<>> THEN <<>>
    ELSE (IF Head(rows)[idx] = k THEN <<Head(rows)>> ELSE <<>>)
         \o Matching(Tail(rows), idx, k)

\* an inner merge's row: a left row with no match is dropped
MergeRowInner(lrow, k, right, ridx) ==
    LET ms == Matching(right.rows, ridx, k)
    IN  [m \in 1..Len(ms) |-> lrow \o ms[m]]

\* one left row of a left merge: paired with each matching right row, or, when
\* there is none, kept once with every right column missing
MergeRow(lrow, k, right, ridx) ==
    LET ms == Matching(right.rows, ridx, k)
    IN  IF ms = <<>>
        THEN << lrow \o [j \in 1..Len(right.cols) |-> NaN] >>
        ELSE [m \in 1..Len(ms) |-> lrow \o ms[m]]

RECURSIVE MergeRows(_, _, _, _)
MergeRows(lrows, lidx, right, ridx) ==
    IF lrows = <<>> THEN <<>>
    ELSE MergeRow(Head(lrows), Head(lrows)[lidx], right, ridx)
         \o MergeRows(Tail(lrows), lidx, right, ridx)

\* left.merge(right, left_on=..., right_on=..., how='left')
merge(left, right, left_on, right_on) ==
    [left EXCEPT !.cols = left.cols \o right.cols,
                 !.rows = MergeRows(left.rows, ColIdx(left, left_on),
                                    right, ColIdx(right, right_on))]

\* a fill that changes nothing
fillna_lost(df, c, v) == df

\* df[c] = df[c].fillna(v)
fillna(df, c, v) ==
    LET k == ColIdx(df, c)
    IN  [df EXCEPT !.rows = [i \in 1..Len(df.rows) |->
                                IF df.rows[i][k] = NaN
                                THEN [df.rows[i] EXCEPT ![k] = v]
                                ELSE df.rows[i]]]

\* a lookup without its default
color_of_nodefault(p, default) ==
    IF p \in DOMAIN master_party_colors THEN master_party_colors[p] ELSE NaN

\* master_party_colors.get(p, default)
color_of(p, default) ==
    IF p \in DOMAIN master_party_colors THEN master_party_colors[p] ELSE default

\* df['color'] = df['party_name'].apply(lambda p: master_party_colors.get(p, default))
apply_color(df, default) ==
    LET k == ColIdx(df, "party_name")
    IN  [df EXCEPT !.cols = Append(df.cols, "color"),
                   !.rows = [i \in 1..Len(df.rows) |->
                                Append(df.rows[i], color_of(df.rows[i][k], default))]]

-----------------------------------------------------------------------------
(* Exceptions *)

\* Python's class hierarchy for the exceptions the reads raise
Subclass ==
    {<<"URLError", "OSError">>, <<"FileNotFoundError", "OSError">>,
     <<"DriverError", "Exception">>, <<"ParserError", "ValueError">>,
     <<"OSError", "Exception">>, <<"ValueError", "Exception">>}

RECURSIVE IsInstance(_, _)
IsInstance(exc, cls) ==
    \/ exc = cls
    \/ \E p \in Subclass : p[1] = exc /\ IsInstance(p[2], cls)

\* an `except` clause list catches exc
Caught(exc, clauses) == \E c \in clauses : IsInstance(exc, c)

\* what a loader hands back: its return value (or the exception that escaped
\* it), the st.* messages it showed, and the sources it read
Result(value, msgs, reads) == [value |-> value, msgs |-> msgs, reads |-> reads]
Raise(exc) == [kind |-> "Raise", exc |-> exc]

\* gpd.read_file(url) / pd.read_csv(path): what the source yields
read_file(url) == world.remote[url]
read_csv(path) == world.files[path]

-----------------------------------------------------------------------------
(* Loaders of election_map.py *)

Pair(gdf, df) == [kind |-> "Pair", gdf |-> gdf, df |-> df]

RenameUUP == "UUP (as UCUNF)" :> "UUP"

RenameForMerge ==
    ("ONS ID" :> "ons_id") @@ ("First party" :> "party_name")
    @@ ("Member first name" :> "firstname") @@ ("Member surname" :> "surname")
    @@ ("Majority" :> "votes")

\* only the missing file is handled
load_data_excepts_narrow == <<"FileNotFoundError", "FileNotFoundError">>

\* the except clauses around pd.read_csv in load_data, in order
load_data_excepts == <<"FileNotFoundError", "Exception">>

\* load_data(year): both sources in one call; (None, None) when either fails
load_data(year) ==
    LET config == ELECTION_DATA[year]
        g == read_file(config.geojson_url)
        r == read_csv(config.results_file)
        df1 == IF ~HasCol(r.data, "Of which other winner")
               THEN AddColumn(r.data, "Of which other winner", "0")
               ELSE r.data
        df2 == IF HasCol(df1, "UUP (as UCUNF)") THEN rename(df1, RenameUUP) ELSE df1
    IN  IF g.kind = "exc"
        THEN IF Caught(g.exc, {"Exception"})
             THEN Result(Pair(None, None),
                         <<"info: Downloading boundaries", "error: Failed to download or read the GeoJSON file">>,
                         {<<"geojson", year>>})
             ELSE Result(Raise(g.exc), <<"info: Downloading boundaries">>,
                         {<<"geojson", year>>})
        ELSE IF r.kind = "exc"
        THEN IF Caught(r.exc, {load_data_excepts[1]})
             THEN Result(Pair(None, None),
                         <<"info: Downloading boundaries", "info: Loading local results",
                           "error: The results file was not found",
                           "warning: Please ensure the results file is in the same folder">>,
                         {<<"geojson", year>>, <<"csv", year>>})
             ELSE IF Caught(r.exc, {load_data_excepts[2]})
             THEN Result(Pair(None, None),
                         <<"info: Downloading boundaries", "info: Loading local results",
                           "error: Failed to read or parse the local CSV file">>,
                         {<<"geojson", year>>, <<"csv", year>>})
             ELSE Result(Raise(r.exc),
                         <<"info: Downloading boundaries", "info: Loading local results">>,
                         {<<"geojson", year>>, <<"csv", year>>})
        ELSE Result(Pair(g.data, df2),
                    <<"info: Downloading boundaries", "info: Loading local results">>,
                    {<<"geojson", year>>, <<"csv", year>>})

-----------------------------------------------------------------------------
(* Loaders of extended_app.py *)

\* gdf.set_crs(4326, allow_override=True) when the CRS is missing or another one
ensure_wgs84(gdf) ==
    IF gdf.crs = "None" \/ gdf.crs # "4326" THEN [gdf EXCEPT !.crs = "4326"] ELSE gdf

\* load_constituencies(year)
load_constituencies(year) ==
    LET cfg == ELECTION_DATA[year]
        g == read_file(cfg.geojson_url)
    IN  IF g.kind = "exc"
        THEN IF Caught(g.exc, {"Exception"})
             THEN Result(None, <<"error: Failed to load constituency GeoJSON">>,
                         {<<"geojson", year>>})
             ELSE Result(Raise(g.exc), <<>>, {<<"geojson", year>>})
        ELSE Result(ensure_wgs84(g.data), <<>>, {<<"geojson", year>>})

\* the except clauses of load_results_csv, in order
load_results_csv_excepts == <<"FileNotFoundError", "Exception">>

\* load_results_csv(year): read, normalise, rename for the merge
load_results_csv(year) ==
    LET cfg == ELECTION_DATA[year]
        r == read_csv(cfg.results_file)
        df1 == IF ~HasCol(r.data, "Of which other winner")
               THEN AddColumn(r.data, "Of which other winner", "0")
               ELSE r.data
        df2 == IF HasCol(df1, "UUP (as UCUNF)") THEN rename(df1, RenameUUP) ELSE df1
        df3 == rename(df2, RenameForMerge)
    IN  IF r.kind = "exc"
        THEN IF Caught(r.exc, {load_results_csv_excepts[1]})
             THEN Result(None, <<"error: Missing results CSV">>, {<<"csv", year>>})
             ELSE IF Caught(r.exc, {load_results_csv_excepts[2]})
             THEN Result(None, <<"error: Failed to load results CSV">>, {<<"csv", year>>})
             ELSE Result(Raise(r.exc), <<>>, {<<"csv", year>>})
        ELSE Result(df3, <<>>, {<<"csv", year>>})

\* load_lsoas()
load_lsoas ==
    LET g == read_file(LSOA_GEOJSON_URL)
    IN  IF g.kind = "exc"
        THEN IF Caught(g.exc, {"Exception"})
             THEN Result(None, <<"error: Failed to load LSOA GeoJSON">>, {<<"geojson", "lsoas">>})
             ELSE Result(Raise(g.exc), <<>>, {<<"geojson", "lsoas">>})
        ELSE Result(ensure_wgs84(g.data), <<>>, {<<"geojson", "lsoas">>})

-----------------------------------------------------------------------------
(* st.cache_data *)

Miss == [kind |-> "Miss"]
Hit(value, msgs) == [kind |-> "Hit", value |-> value, msgs |-> msgs]

\* a call of a function decorated with @st.cache_data, given the store's entry
\* for the argument and what the body would compute: a stored entry is returned
\* (with the body's messages replayed) and the body does not run; otherwise the
\* body runs and whatever it returns, None included, is stored; an exception
\* that escapes the body is stored nowhere
st_cache_data(entry, result) ==
    IF entry.kind = "Hit"
    THEN [ret |-> entry.value, msgs |-> entry.msgs, entry |-> entry, reads |-> {},
          hit |-> TRUE]
    ELSE IF result.value.kind = "Raise"
    THEN [ret |-> result.value, msgs |-> result.msgs, entry |-> entry,
          reads |-> result.reads, hit |-> FALSE]
    ELSE [ret |-> result.value, msgs |-> result.msgs,
          entry |-> Hit(result.value, result.msgs), reads |-> result.reads,
          hit |-> FALSE]

\* a store that hands out the stored object itself
after_inplace_change_shared(entry, changed) == [entry EXCEPT !.value = changed]

\* the store's entry after the caller changed, in place, the object a cached
\* call returned: st.cache_data hands out a fresh copy of the stored value on
\* every call, so the store keeps what the body returned
after_inplace_change(entry, changed) == entry

\* the read counters after a call that read `reads`
Count(reads) ==
    [s \in DOMAIN fetched |->
        IF s \in reads /\ fetched[s] < MaxFetch THEN fetched[s] + 1 ELSE fetched[s]]

\* history: the first value a cached loader returned for an argument
Remember(seen, ret) == IF seen.kind = "Miss" /\ ret.kind # "Raise" THEN ret ELSE seen


-----------------------------------------------------------------------------
(* Rendering passes.  Streamlit runs the script from top to bottom on every  *)
(* interaction; what a run computed is gone when it ends, the st.cache_data   *)
(* stores stay.                                                              *)

\* no run in progress: nothing computed, nothing on the page
Idle == [view |-> "none"]

\* the run ends and the process waits for the next interaction
script_end ==
    /\ out # Idle
    /\ out' = Idle
    /\ UNCHANGED <<app, world, cache, fetched, first>>

-----------------------------------------------------------------------------
(* View 1: the election map *)

\* the pass's record when it stops before the join
Stopped(view, year, gdf, df, status, msgs, steps, cached) ==
    [view |-> view, year |-> year, gdf |-> gdf, df |-> df, status |-> status,
     cached |-> cached,
     joined |-> None, merged |-> None, msgs |-> msgs, steps |-> steps]

\* df[c].fillna(v, inplace=True): the fill is made on the Series that df[c]
\* returned.  It reaches df when that Series is a view of the frame (pandas
\* without copy-on-write) and is lost when it is a copy (pandas with
\* copy-on-write, the default from pandas 3.0).  The script fixes no pandas
\* version: writes_through is which of the two the installed pandas does.
fillna_chained_inplace(df, c, v, writes_through) ==
    IF writes_through THEN fillna(df, c, v) ELSE df

\* election_map.py l.110-150: the frames the pass computes from the loaded pair
election_map_frames(ret, selected_year, writes_through) ==
    LET config == ELECTION_DATA[selected_year]
        \* results_df.rename(columns={...}, inplace=True)
        results_df == rename(ret.df, RenameForMerge)
        merged_gdf == merge(ret.gdf, results_df, config.geo_code_col, "ons_id")
        \* merged_gdf['party_name'].fillna('Others', inplace=True)
        filled == fillna_chained_inplace(merged_gdf, "party_name", "Others", writes_through)
        colored == apply_color(filled, master_party_colors["Others"])
    IN  [results_df |-> results_df, joined |-> merged_gdf, merged |-> colored]

\* extended_app.py l.136-151: the frames the pass computes from the loaded tables
extended_app_frames(gdf, df, year) ==
    LET cfg == ELECTION_DATA[year]
        merged == merge(gdf, df, cfg.geo_code_col, "ons_id")
        \* merged['party_name'] = merged['party_name'].fillna('Others')
        filled == fillna(merged, "party_name", "Others")
        colored == apply_color(filled, "#808080")
    IN  [joined |-> merged, merged |-> colored]

\* election_map.py: one pass of create_election_map_app with the year selected
create_election_map_app(selected_year) ==
    /\ app = "election_map"
    /\ out = Idle
    /\ \E writes_through \in BOOLEAN :
       LET call == st_cache_data(cache.load_data[selected_year], load_data(selected_year))
           ret == call.ret
           frames == election_map_frames(ret, selected_year, writes_through)
           results_df == frames.results_df
           merged_gdf == frames.joined
           colored == frames.merged
           cached == IF call.hit THEN {"load_data"} ELSE {}
       IN  /\ fetched' = Count(call.reads)
           /\ first' = [first EXCEPT !.load_data[selected_year] = Remember(@, ret)]
           /\ IF ret.kind = "Raise"
              THEN /\ cache' = [cache EXCEPT !.load_data[selected_year] = call.entry]
                   /\ out' = Stopped("create_election_map_app", selected_year, ret, ret,
                                     "aborted", call.msgs, <<"load">>, cached)
              ELSE IF ret.gdf = None \/ ret.df = None
              THEN /\ cache' = [cache EXCEPT !.load_data[selected_year] = call.entry]
                   /\ out' = Stopped("create_election_map_app", selected_year, ret.gdf, ret.df,
                                     "warning",
                                     Append(call.msgs, "warning: Could not load all data. The map cannot be displayed."),
                                     <<"load">>, cached)
              ELSE /\ cache' = [cache EXCEPT !.load_data[selected_year] =
                                    after_inplace_change(call.entry, Pair(ret.gdf, results_df))]
                   /\ out' = [view |-> "create_election_map_app", year |-> selected_year,
                              gdf |-> ret.gdf, df |-> ret.df, status |-> "rendered",
                              cached |-> cached,
                              joined |-> merged_gdf, merged |-> colored,
                              msgs |-> call.msgs,
                              steps |-> <<"load", "merge", "colour", "render">>]
    /\ UNCHANGED <<app, world>>

\* extended_app.py: one pass of main() with the election map view and the year selected
render_election_map(year) ==
    /\ app = "extended_app"
    /\ out = Idle
    /\ LET c1 == st_cache_data(cache.load_constituencies[year], load_constituencies(year))
           gdf == c1.ret
           c2 == st_cache_data(cache.load_results_csv[year], load_results_csv(year))
           df == c2.ret
           frames == extended_app_frames(gdf, df, year)
           merged == frames.joined
           colored == frames.merged
           cached == (IF c1.hit THEN {"load_constituencies"} ELSE {})
                     \cup (IF c2.hit THEN {"load_results_csv"} ELSE {})
       IN  IF gdf.kind = "Raise"
           THEN /\ cache' = cache
                /\ fetched' = Count(c1.reads)
                /\ first' = first
                /\ out' = Stopped("render_election_map", year, gdf, None, "aborted",
                                  c1.msgs, <<"load">>, {})
           ELSE /\ cache' = [cache EXCEPT !.load_constituencies[year] = c1.entry,
                                          !.load_results_csv[year] = c2.entry]
                /\ fetched' = Count(c1.reads \cup c2.reads)
                /\ first' = [first EXCEPT !.load_constituencies[year] = Remember(@, gdf),
                                          !.load_results_csv[year] = Remember(@, df)]
                /\ IF df.kind = "Raise"
                   THEN out' = Stopped("render_election_map", year, gdf, df, "aborted",
                                       c1.msgs \o c2.msgs, <<"load">>, cached)
                   ELSE IF gdf = None \/ df = None
                   THEN out' = Stopped("render_election_map", year, gdf, df, "warning",
                                       c1.msgs \o c2.msgs \o
                                       <<"warning: Could not load all data. The map cannot be displayed.">>,
                                       <<"load">>, cached)
                   ELSE out' = [view |-> "render_election_map", year |-> year, gdf |-> gdf,
                                cached |-> cached,
                                df |-> df, status |-> "rendered", joined |-> merged,
                                merged |-> colored,
                                msgs |-> c1.msgs \o c2.msgs,
                                steps |-> <<"load", "merge", "colour", "render">>]
    /\ UNCHANGED <<app, world>>

-----------------------------------------------------------------------------
(* View 2: constituency data, the LSOA drill-down *)

\* Python's None where a string is expected
PyNone == "None"
\* a string's truth value
Truthy(v) == v # PyNone /\ v # ""

\* a feature's properties: the keys it has and their values
Props(has, name, code) == [has |-> has, name |-> name, code |-> code]
NoProps == Props({}, PyNone, PyNone)
\* props.get(key)
Get(props, key, value) == IF key \in props.has THEN value ELSE PyNone

\* an object of the click info: nothing, or a dict with (or without) properties
NoObject == [clicked |-> FALSE, properties |-> NoProps]
Object(props) == [clicked |-> TRUE, properties |-> props]

\* the properties of the clicked feature, as read from st_folium's return
\* value: last_object_clicked first, last_active_drawing when that gave none
clicked_props(click_info, geo_name_col, geo_code_col) ==
    LET loc == click_info.last_object_clicked
        lad == click_info.last_active_drawing
        p1 == IF click_info.is_dict /\ loc.clicked THEN loc.properties ELSE NoProps
        p2 == IF click_info.is_dict /\ p1.has = {} /\ lad.clicked
              THEN lad.properties ELSE p1
    IN  p2

\* the first row of the collection named chosen_name
RECURSIVE FirstNamed(_, _, _)
FirstNamed(rows, nidx, chosen_name) ==
    IF rows = <<>> THEN <<>>
    ELSE IF Head(rows)[nidx] = chosen_name THEN <<Head(rows)>>
    ELSE FirstNamed(Tail(rows), nidx, chosen_name)

\* the selectbox's value taken as the fallback choice although the button was
\* not pressed
decide_selection_unpressed(props, use_fallback, chosen_name, pcon_gdf, geo_name_col, geo_code_col) ==
    LET row == FirstNamed(pcon_gdf.rows, ColIdx(pcon_gdf, geo_name_col), chosen_name)
    IN  IF props.has # {} /\ Truthy(Get(props, geo_code_col, props.code))
        THEN [code |-> Get(props, geo_code_col, props.code),
              name |-> Get(props, geo_name_col, props.name)]
        ELSE [code |-> IF row # <<>> THEN row[1][ColIdx(pcon_gdf, geo_code_col)] ELSE PyNone,
              name |-> chosen_name]

\* the fallback choice first, the click only without it
decide_selection_fallback_first(props, use_fallback, chosen_name, pcon_gdf, geo_name_col, geo_code_col) ==
    LET row == FirstNamed(pcon_gdf.rows, ColIdx(pcon_gdf, geo_name_col), chosen_name)
    IN  IF use_fallback
        THEN [code |-> IF row # <<>> THEN row[1][ColIdx(pcon_gdf, geo_code_col)] ELSE PyNone,
              name |-> chosen_name]
        ELSE IF props.has # {} /\ Truthy(Get(props, geo_code_col, props.code))
        THEN [code |-> Get(props, geo_code_col, props.code),
              name |-> Get(props, geo_name_col, props.name)]
        ELSE [code |-> PyNone, name |-> PyNone]

\* the selection: click beats fallback; else fallback if the button was pressed
decide_selection(props, use_fallback, chosen_name, pcon_gdf, geo_name_col, geo_code_col) ==
    LET row == FirstNamed(pcon_gdf.rows, ColIdx(pcon_gdf, geo_name_col), chosen_name)
    IN  IF props.has # {} /\ Truthy(Get(props, geo_code_col, props.code))
        THEN [code |-> Get(props, geo_code_col, props.code),
              name |-> Get(props, geo_name_col, props.name)]
        ELSE IF use_fallback
        THEN [code |-> IF row # <<>> THEN row[1][ColIdx(pcon_gdf, geo_code_col)] ELSE PyNone,
              name |-> chosen_name]
        ELSE [code |-> PyNone, name |-> PyNone]

\* df[df[col] == value].reset_index(drop=True)
RECURSIVE RowsWhere(_, _, _)
RowsWhere(rows, idx, value) ==
    IF rows = <<>> THEN <<>>
    ELSE (IF Head(rows)[idx] = value THEN <<Head(rows)>> ELSE <<>>)
         \o RowsWhere(Tail(rows), idx, value)

\* predicate="within": the first geometry lies inside the second
within(g1, g2) == g1 \subseteq g2

\* shapely's intersects: the two geometries share at least one point
intersects(g1, g2) == g1 \cap g2 # {}

\* a how="left" join's rows for one left row: a left row that intersects nothing
\* is kept, with no right row
JoinRowLeft(lrow, lgeom, rrows, ridx, k) ==
    LET hit[j \in k..(Len(rrows) + 1)] ==
            IF j > Len(rrows) THEN <<>>
            ELSE (IF intersects(lrow[lgeom], rrows[j][ridx.geom])
                  THEN << lrow \o <<j - 1, rrows[j][ridx.code]>> >> ELSE <<>>)
                 \o hit[j + 1]
    IN  IF hit[k] = <<>> THEN << lrow \o <<NaN, NaN>> >> ELSE hit[k]

\* the pairs of one left row with the right rows it intersects, in order
RECURSIVE JoinRow(_, _, _, _, _)
JoinRow(lrow, lgeom, rrows, ridx, k) ==
    IF k > Len(rrows) THEN <<>>
    ELSE (IF intersects(lrow[lgeom], rrows[k][ridx.geom])
          THEN << lrow \o <<k - 1, rrows[k][ridx.code]>> >> ELSE <<>>)
         \o JoinRow(lrow, lgeom, rrows, ridx, k + 1)

RECURSIVE JoinRows(_, _, _, _)
JoinRows(lrows, lgeom, rrows, ridx) ==
    IF lrows = <<>> THEN <<>>
    ELSE JoinRow(Head(lrows), lgeom, rrows, ridx, 1)
         \o JoinRows(Tail(lrows), lgeom, rrows, ridx)

\* gpd.sjoin(left, right[[code_col, "geometry"]], predicate="intersects", how="inner"):
\* one row per intersecting (left row, right row) pair; it raises when a frame
\* already has a column of the names it adds
sjoin(left, right, code_col) ==
    IF HasCol(left, "index_right") \/ HasCol(left, "index_left")
    THEN Raise("ValueError")
    ELSE [left EXCEPT !.cols = left.cols \o <<"index_right", code_col>>,
                      !.rows = JoinRows(left.rows, ColIdx(left, "geometry"), right.rows,
                                        [geom |-> ColIdx(right, "geometry"),
                                         code |-> ColIdx(right, code_col)])]

NotCalled == [kind |-> "NotCalled"]

\* the pass's record
Drill(click_info, chosen_name, use_fallback, pcon_gdf, cached, selection, sel, lsoas, lsoas_in, exit, msgs) ==
    [view |-> "render_constituency_data", click_info |-> click_info,
     chosen_name |-> chosen_name, use_fallback |-> use_fallback, pcon_gdf |-> pcon_gdf,
     cached |-> cached, selected_code |-> selection.code,
     selected_name |-> selection.name, sel |-> sel, lsoas |-> lsoas,
     lsoas_in |-> lsoas_in, exit |-> exit, msgs |-> msgs]

NoClick == [is_dict |-> TRUE, last_object_clicked |-> NoObject,
            last_active_drawing |-> NoObject]

\* what the map widget can report for a click on a feature with the given
\* properties: on last_object_clicked, on last_active_drawing (with the click's
\* position, which has no properties, on last_object_clicked), or on both
ClicksOn(props) ==
    {[is_dict |-> TRUE, last_object_clicked |-> Object(props),
      last_active_drawing |-> NoObject],
     [is_dict |-> TRUE, last_object_clicked |-> Object(NoProps),
      last_active_drawing |-> Object(props)],
     [is_dict |-> TRUE, last_object_clicked |-> Object(props),
      last_active_drawing |-> Object(props)]}

\* the features the widget can report: the rows of the collection on the map,
\* a feature whose code is not in the collection, and one without a code
FeaturesOf(gdf, geo_name_col, geo_code_col) ==
    {Props({geo_name_col, geo_code_col}, gdf.rows[i][ColIdx(gdf, geo_name_col)],
           gdf.rows[i][ColIdx(gdf, geo_code_col)]) : i \in 1..Len(gdf.rows)}
    \cup {Props({geo_name_col, geo_code_col}, "Elsewhere", "Z9"),
          Props({geo_name_col}, "Elsewhere", PyNone)}

\* st_folium's return values
ClickInfos(gdf, geo_name_col, geo_code_col) ==
    {NoClick, [NoClick EXCEPT !.is_dict = FALSE]}
    \cup UNION {ClicksOn(f) : f \in FeaturesOf(gdf, geo_name_col, geo_code_col)}

\* extended_app.py: one pass of main() with the constituency data view
render_constituency_data ==
    /\ app = "extended_app"
    /\ out = Idle
    /\ LET year == "2024"
           cfg == ELECTION_DATA[year]
           geo_name_col == cfg.geo_name_col
           geo_code_col == cfg.geo_code_col
           c1 == st_cache_data(cache.load_constituencies[year], load_constituencies(year))
           pcon_gdf == c1.ret
           c2 == st_cache_data(cache.load_lsoas, load_lsoas)
           lsoas == c2.ret
           hit1 == IF c1.hit THEN {"load_constituencies"} ELSE {}
           hit2 == hit1 \cup (IF c2.hit THEN {"load_lsoas"} ELSE {})
           none == [code |-> PyNone, name |-> PyNone]
       IN  IF pcon_gdf.kind = "Raise"
           THEN /\ out' = Drill(NoClick, PyNone, FALSE, pcon_gdf, hit1, none, None,
                                NotCalled, None, "aborted", c1.msgs)
                /\ fetched' = Count(c1.reads)
                /\ UNCHANGED <<cache, first>>
           ELSE IF pcon_gdf = None \/ pcon_gdf.rows = <<>>
           THEN /\ out' = Drill(NoClick, PyNone, FALSE, pcon_gdf, hit1, none, None,
                                NotCalled, None, "no_constituencies",
                                Append(c1.msgs, "warning: Could not load constituency layer."))
                /\ fetched' = Count(c1.reads)
                /\ cache' = [cache EXCEPT !.load_constituencies[year] = c1.entry]
                /\ first' = [first EXCEPT !.load_constituencies[year] = Remember(@, pcon_gdf)]
           ELSE \E chosen_name \in {pcon_gdf.rows[i][ColIdx(pcon_gdf, geo_name_col)] :
                                       i \in 1..Len(pcon_gdf.rows)},
                   use_fallback \in BOOLEAN,
                   click_info \in ClickInfos(pcon_gdf, geo_name_col, geo_code_col) :
                LET props == clicked_props(click_info, geo_name_col, geo_code_col)
                    selection == decide_selection(props, use_fallback, chosen_name,
                                                  pcon_gdf, geo_name_col, geo_code_col)
                    sel == [pcon_gdf EXCEPT !.rows =
                               RowsWhere(pcon_gdf.rows, ColIdx(pcon_gdf, geo_code_col),
                                         selection.code)]
                    lsoas_in == sjoin(lsoas, sel, geo_code_col)
                    D(s, l, j, exit, msgs) ==
                        Drill(click_info, chosen_name, use_fallback, pcon_gdf,
                              IF l = NotCalled THEN hit1 ELSE hit2, selection, s, l, j,
                              exit, msgs)
                IN  IF ~Truthy(selection.code) \/ sel.rows = <<>>
                    THEN /\ fetched' = Count(c1.reads)
                         /\ cache' = [cache EXCEPT !.load_constituencies[year] = c1.entry]
                         /\ first' = [first EXCEPT !.load_constituencies[year] =
                                                       Remember(@, pcon_gdf)]
                         /\ IF ~Truthy(selection.code)
                            THEN out' = D(None, NotCalled, None, "no_selection",
                                          Append(c1.msgs, "info: Tip: click a constituency on the map, or use the fallback selector in the sidebar."))
                            ELSE out' = D(sel, NotCalled, None, "not_found",
                                          Append(c1.msgs, "error: Couldn't find the selected constituency in the dataset."))
                    ELSE /\ fetched' = Count(c1.reads \cup c2.reads)
                         /\ cache' = [cache EXCEPT !.load_constituencies[year] = c1.entry,
                                                   !.load_lsoas = c2.entry]
                         /\ first' = [first EXCEPT !.load_constituencies[year] =
                                                       Remember(@, pcon_gdf),
                                                   !.load_lsoas = Remember(@, lsoas)]
                         /\ IF lsoas.kind = "Raise"
                            THEN out' = D(sel, lsoas, None, "aborted", c1.msgs \o c2.msgs)
                            ELSE IF lsoas = None \/ lsoas.rows = <<>>
                            THEN out' = D(sel, lsoas, None, "no_lsoas_layer",
                                          c1.msgs \o c2.msgs \o
                                          <<"warning: LSOA layer could not be loaded.">>)
                            ELSE IF lsoas_in.kind = "Raise"
                            THEN out' = D(sel, lsoas, None, "sjoin_failed",
                                          c1.msgs \o c2.msgs \o
                                          <<"error: Spatial join failed">>)
                            ELSE IF lsoas_in.rows = <<>>
                            THEN out' = D(sel, lsoas, lsoas_in, "no_lsoas_found",
                                          c1.msgs \o c2.msgs \o
                                          <<"warning: No LSOAs found. This likely means the constituency is outside England & Wales.">>)
                            ELSE out' = D(sel, lsoas, lsoas_in, "detail_map",
                                          c1.msgs \o c2.msgs)
    /\ UNCHANGED <<app, world>>

-----------------------------------------------------------------------------
(* The data the sources may hold *)

Ok(data) == [kind |-> "ok", data |-> data]
Exc(e) == [kind |-> "exc", exc |-> e]

SeqsUpTo(S, n) == UNION {[1..k -> S] : k \in 0..n}

Codes == {"A1", "A2"}
NameOf(c) == IF c = "A1" THEN "Aberafan" ELSE "Belfast East"
\* a party of the colour table, one that is not in it, and a missing label
Parties == {"Lab", "Ind", NaN}
Points == {1, 2}

\* the columns of the constituency collection behind a URL
GeoCols(url) ==
    IF url = URL2024 THEN <<"PCON24CD", "PCON24NM", "geometry">>
    ELSE <<"pcon19cd", "pcon19nm", "geometry">>

\* a constituency collection with the given (code, geometry) rows
Boundaries(url, rs) ==
    GeoDataFrame(GeoCols(url), [i \in 1..Len(rs) |-> <<rs[i][1], NameOf(rs[i][1]), rs[i][2]>>],
                 "4326")

\* the headers a results file may have
Headers ==
    {<<"ONS ID", "First party", "Majority", "Of which other winner">>,
     <<"ONS ID", "First party", "Majority", "UUP (as UCUNF)">>,
     <<"ONS ID", "First party", "Majority", "UUP">>,
     <<"ONS ID", "First party", "Majority", "Of which other winner", "UUP (as UCUNF)">>}

Votes == <<"7", "8", "9", "10">>

Cell(col, i, r) ==
    CASE col = "ONS ID" -> r[1]
      [] col = "First party" -> r[2]
      [] col = "Majority" -> "500"
      [] col = "Of which other winner" -> "1"
      [] OTHER -> Votes[i]

\* a results table with the given header and (code, party) rows
Results(h, rs) ==
    DataFrame(h, [i \in 1..Len(rs) |-> [j \in 1..Len(h) |-> Cell(h[j], i, rs[i])]])

BoundarySources(url) ==
    {Ok(Boundaries(url, rs)) : rs \in SeqsUpTo(Codes \X {{1}}, MaxB)}
    \cup {Exc("URLError"), Exc("DriverError")}

\* any (code, party) rows under the 2010 header, which lacks the "other winner"
\* column and has the alternate UUP header; every header with plain rows; the
\* two ways the read fails
ResultSources ==
    {Ok(Results(<<"ONS ID", "First party", "Majority", "UUP (as UCUNF)">>, rs)) :
        rs \in SeqsUpTo(Codes \X Parties, MaxRows)}
    \cup {Ok(Results(h, rs)) : h \in Headers, rs \in SeqsUpTo({<<"A1", "Lab">>}, MaxRows)}
    \cup {Exc("FileNotFoundError"), Exc("ParserError")}

\* the spec's end-to-end scenario: boundaries {A1, A2}, results {(A1, Lab, 500)}
DefaultBoundaries(url) == Ok(Boundaries(url, <<<<"A1", {1}>>, <<"A2", {2}>>>>))
DefaultResults == Ok(Results(<<"ONS ID", "First party", "Majority", "Of which other winner">>,
                             <<<<"A1", "Lab">>>>))
LsoaCols == <<"LSOA21CD", "LSOA21NM", "geometry">>
Lsoas(gs) ==
    GeoDataFrame(LsoaCols,
                 [i \in 1..Len(gs) |-> <<Votes[i], Votes[i], gs[i]>>], "4326")
DefaultLsoas == Ok(Lsoas(<<{1}>>))

EmptyCache ==
    [load_data |-> [y \in Years |-> Miss],
     load_constituencies |-> [y \in Years |-> Miss],
     load_results_csv |-> [y \in Years |-> Miss],
     load_lsoas |-> Miss]

Fresh ==
    /\ cache = EmptyCache
    /\ first = EmptyCache
    /\ fetched = [s \in Reads |-> 0]
    /\ out = Idle

\* one year's sources hold any data of the bounded sets (or fail), the others
\* the default scenario
Init ==
    /\ app \in {"election_map", "extended_app"}
    /\ \E y \in Years :
       \E g \in BoundarySources(ELECTION_DATA[y].geojson_url) :
       \E r \in ResultSources :
          world = [remote |-> [u \in Urls |->
                                  IF u = ELECTION_DATA[y].geojson_url THEN g
                                  ELSE IF u = LSOA_GEOJSON_URL THEN DefaultLsoas
                                  ELSE DefaultBoundaries(u)],
                   files |-> [f \in Files |->
                                  IF f = ELECTION_DATA[y].results_file THEN r
                                  ELSE DefaultResults]]
    /\ Fresh

Next ==
    \/ \E y \in Years : create_election_map_app(y)
    \/ \E y \in Years : render_election_map(y)
    \/ script_end

Spec == Init /\ [][Next]_vars


-----------------------------------------------------------------------------
(* The drill-down view over any constituency collection and LSOA layer *)

\* constituency collections whose rows have any code and either region, and a
\* failed download
DrillBoundarySources ==
    {Ok(Boundaries(URL2024, rs)) : rs \in SeqsUpTo(Codes \X {{1}, {2}}, MaxB)}
    \cup {Exc("URLError")}

\* LSOA layers whose rows cover the first region or both, a layer that already
\* has an 'index_right' column, and a failed download
LsoaSources ==
    {Ok(Lsoas(gs)) : gs \in SeqsUpTo({{1}, {1, 2}}, MaxL)}
    \cup {Ok(GeoDataFrame(Append(LsoaCols, "index_right"), <<<<"7", "7", {1}, "0">>>>, "4326")),
          Exc("URLError")}

InitDrill ==
    /\ app = "extended_app"
    /\ \E g \in DrillBoundarySources :
       \E l \in LsoaSources :
          world = [remote |-> [u \in Urls |->
                                  IF u = URL2024 THEN g
                                  ELSE IF u = LSOA_GEOJSON_URL THEN l
                                  ELSE DefaultBoundaries(u)],
                   files |-> [f \in Files |-> DefaultResults]]
    /\ Fresh

NextDrill ==
    \/ render_constituency_data
    \/ script_end

SpecDrill == InitDrill /\ [][NextDrill]_vars

-----------------------------------------------------------------------------
(* Both scripts, all views, over sources that each hold the default data or fail *)

InitCache ==
    /\ app \in {"election_map", "extended_app"}
    /\ \E gs \in [Urls \ {LSOA_GEOJSON_URL} ->
                    {"4326", "None", "URLError"}] :
       \E l \in {DefaultLsoas, Exc("URLError")} :
       \E rs \in [Files -> {DefaultResults, Exc("FileNotFoundError")}] :
          world = [remote |-> [u \in Urls |->
                                  IF u = LSOA_GEOJSON_URL THEN l
                                  ELSE IF gs[u] = "URLError" THEN Exc("URLError")
                                  ELSE Ok([DefaultBoundaries(u).data EXCEPT !.crs = gs[u]])],
                   files |-> rs]
    /\ Fresh

NextCache ==
    \/ \E y \in Years : create_election_map_app(y)
    \/ \E y \in Years : render_election_map(y)
    \/ render_constituency_data
    \/ script_end

SpecCache == InitCache /\ [][NextCache]_vars

-----------------------------------------------------------------------------
(* What the claims speak of *)

\* the last pass was a pass of view 1
InElectionView == out.view \in {"create_election_map_app", "render_election_map"}
\* ... that got as far as the map
Rendered == InElectionView /\ out.status = "rendered"

\* the sources behind the year of the last pass
SrcB == world.remote[ELECTION_DATA[out.year].geojson_url]
SrcR == world.files[ELECTION_DATA[out.year].results_file]

\* the cell of row j of the joined collection in the column named c
MCell(j, c) == out.merged.rows[j][ColIdx(out.merged, c)]
\* the boundary part of row j of the joined collection
LeftPart(j) == SubSeq(out.merged.rows[j], 1, Len(SrcB.data.cols))

\* the rows of the results file whose 'ONS ID' is code
FileRowsFor(code) ==
    {i \in 1..Len(SrcR.data.rows) :
        SrcR.data.rows[i][ColIdx(SrcR.data, "ONS ID")] = code}
\* the party label of row i of the results file
FileParty(i) == SrcR.data.rows[i][ColIdx(SrcR.data, "First party")]
\* the code of boundary i
BCode(i) == SrcB.data.rows[i][1]

\* the number of joined rows boundary i accounts for
Copies(i) == IF FileRowsFor(BCode(i)) = {} THEN 1 ELSE Cardinality(FileRowsFor(BCode(i)))
RECURSIVE CopiesBefore(_)
CopiesBefore(i) == IF i <= 1 THEN 0 ELSE CopiesBefore(i - 1) + Copies(i - 1)

\* no code of the boundary collection is carried by two rows of the results file
OneResultPerCode ==
    \A i \in 1..Len(SrcB.data.rows) : Cardinality(FileRowsFor(BCode(i))) <= 1

\* C1 as stated: the join of view 1 has exactly |B| rows and every boundary
\* appears in it exactly once, whatever the overlap of the codes of B and R.
C1_JoinKeepsBoundaryCount ==
    Rendered =>
        /\ Len(out.merged.rows) = Len(SrcB.data.rows)
        /\ \A i \in 1..Len(SrcB.data.rows) : LeftPart(i) = SrcB.data.rows[i]

\* C1 amended: every boundary appears in the join, in order, once when no
\* result row carries its code and otherwise once per result row carrying it;
\* so the join has exactly |B| rows, each boundary once, when no code of B is
\* carried by two result rows.
C1_JoinKeepsEveryBoundary ==
    Rendered =>
        /\ Len(out.merged.rows) = CopiesBefore(Len(SrcB.data.rows) + 1)
        /\ \A i \in 1..Len(SrcB.data.rows) :
              \A k \in 1..Copies(i) : LeftPart(CopiesBefore(i) + k) = SrcB.data.rows[i]
        /\ OneResultPerCode =>
              /\ Len(out.merged.rows) = Len(SrcB.data.rows)
              /\ \A i \in 1..Len(SrcB.data.rows) : LeftPart(i) = SrcB.data.rows[i]

\* C1's case: a join of two boundaries, one with a result row and one without
C1_Witness ==
    /\ Rendered
    /\ OneResultPerCode
    /\ Len(SrcB.data.rows) = 2
    /\ FileRowsFor(BCode(1)) # {}
    /\ FileRowsFor(BCode(2)) = {}
    /\ Len(out.merged.rows) = 2


\* the feature of row j of the coloured collection: code, party_name, colour
Feature(j) ==
    <<MCell(j, ELECTION_DATA[out.year].geo_code_col), MCell(j, "party_name"),
      MCell(j, "color")>>
\* row j shows the label p (a missing label as 'Others') in the table's colour for it
Shows(j, p) ==
    /\ MCell(j, "party_name") = (IF p = NaN THEN "Others" ELSE p)
    /\ MCell(j, "color") =
          (IF p \in DOMAIN master_party_colors THEN master_party_colors[p] ELSE "#808080")

\* C2: after the join and the colouring every feature carries exactly one
\* colour: the table's colour for the party label of a result row with its code
\* ('Lab' -> '#E4003B'), the default colour '#808080' with category 'Others'
\* when no result row has its code, and the default colour for a label that is
\* not in the table; boundaries {A1, A2} with results {(A1, 'Lab')} give A1 in
\* Lab's colour and A2 'Others' in the default colour.
C2_EveryFeatureOneColour ==
    Rendered =>
        /\ Cardinality({k \in 1..Len(out.merged.cols) : out.merged.cols[k] = "color"}) = 1
        /\ \A j \in 1..Len(out.merged.rows) :
              /\ Len(out.merged.rows[j]) = Len(out.merged.cols)
              /\ IF FileRowsFor(Feature(j)[1]) = {}
                 THEN Feature(j)[2] = "Others" /\ Feature(j)[3] = "#808080"
                 ELSE \E i \in FileRowsFor(Feature(j)[1]) : Shows(j, FileParty(i))
              /\ Feature(j)[2] = "Lab" => Feature(j)[3] = "#E4003B"
              /\ Feature(j)[2] \notin DOMAIN master_party_colors => Feature(j)[3] = "#808080"
        /\ (/\ [i \in 1..Len(SrcB.data.rows) |-> BCode(i)] = <<"A1", "A2">>
            /\ [i \in 1..Len(SrcR.data.rows) |-> <<SrcR.data.rows[i][1], FileParty(i)>>]
                  = <<<<"A1", "Lab">>>>)
           => [j \in 1..Len(out.merged.rows) |-> Feature(j)]
                  = <<<<"A1", "Lab", "#E4003B">>, <<"A2", "Others", "#808080">>>>

\* C2's case: the end-to-end scenario has been rendered
C2_Witness ==
    /\ Rendered
    /\ Len(out.merged.rows) = 2
    /\ Feature(1) = <<"A1", "Lab", "#E4003B">>
    /\ Feature(2) = <<"A2", "Others", "#808080">>

\* the category label of joined feature j before the colouring
JLabel(j) == out.joined.rows[j][ColIdx(out.joined, "party_name")]

Shown(m) == \E k \in 1..Len(out.msgs) : out.msgs[k] = m

\* C4: whatever the boundary fetch and the results read do, no exception
\* leaves a loader or ends the pass: a failed load comes back as None, the pass
\* shows the warning and stops, the join, the colouring and the map run exactly
\* in the passes with both inputs loaded, and load_data returns both or neither.
C4_LoaderFailuresContained ==
    InElectionView =>
        /\ out.status \in {"warning", "rendered"}
        /\ out.gdf.kind # "Raise" /\ out.df.kind # "Raise"
        /\ SrcB.kind = "exc" => out.gdf = None
        /\ SrcR.kind = "exc" => out.df = None
        /\ out.status = "rendered" <=> (SrcB.kind = "ok" /\ SrcR.kind = "ok")
        /\ out.status = "rendered" =>
              /\ out.gdf # None /\ out.df # None
              /\ out.steps = <<"load", "merge", "colour", "render">>
        /\ out.status = "warning" =>
              /\ Shown("warning: Could not load all data. The map cannot be displayed.")
              /\ out.steps = <<"load">>
              /\ out.joined = None /\ out.merged = None
        /\ out.view = "create_election_map_app" => (out.gdf = None <=> out.df = None)

\* C4's case: the boundaries arrived, the results file did not parse, and
\* load_data returned (None, None)
C4_Witness ==
    /\ out.view = "create_election_map_app"
    /\ SrcB.kind = "ok"
    /\ SrcR = Exc("ParserError")
    /\ out.status = "warning"
    /\ out.gdf = None /\ out.df = None

\* the name a column of the file has in the loaded table, the two
\* normalisation steps aside: load_results_csv goes on to rename for the merge
NameAfterLoad(c) ==
    IF out.view = "render_election_map" /\ c \in DOMAIN RenameForMerge
    THEN RenameForMerge[c] ELSE c

\* C9: a loaded results table has the file's rows; a file without the column
\* 'Of which other winner' gets it, 0 in every row; the column 'UUP (as UCUNF)'
\* becomes 'UUP' with its values and is gone under its old name; every other
\* column keeps its place, its name and its values.
C9_SchemaNormalised ==
    (InElectionView /\ out.df.kind = "DataFrame") =>
        LET raw == SrcR.data
            df == out.df
            n == Len(raw.cols)
        IN  /\ Len(df.rows) = Len(raw.rows)
            /\ \A i \in 1..Len(df.rows) : Len(df.rows[i]) = Len(df.cols)
            /\ HasCol(raw, "Of which other winner") => Len(df.cols) = n
            /\ ~HasCol(raw, "Of which other winner") =>
                  /\ Len(df.cols) = n + 1
                  /\ df.cols[n + 1] = "Of which other winner"
                  /\ \A i \in 1..Len(df.rows) : df.rows[i][n + 1] = "0"
            /\ ~HasCol(df, "UUP (as UCUNF)")
            /\ \A k \in 1..n :
                  /\ df.cols[k] = (IF raw.cols[k] = "UUP (as UCUNF)" THEN "UUP"
                                   ELSE NameAfterLoad(raw.cols[k]))
                  /\ \A i \in 1..Len(df.rows) : df.rows[i][k] = raw.rows[i][k]

\* C9's case: a file of two rows without the 'other winner' column and with
\* the alternate UUP header has been loaded
C9_Witness ==
    /\ InElectionView
    /\ out.df.kind = "DataFrame"
    /\ ~HasCol(SrcR.data, "Of which other winner")
    /\ HasCol(SrcR.data, "UUP (as UCUNF)")
    /\ Len(out.df.rows) = 2
    /\ HasCol(out.df, "UUP")


-----------------------------------------------------------------------------
(* What the claims on the caches speak of *)

\* the values the cached loaders returned in the last pass: loader, argument, value
Returned ==
    CASE out.view = "create_election_map_app" ->
            {<<"load_data", out.year, Pair(out.gdf, out.df)>>}
      [] out.view = "render_election_map" ->
            {<<"load_constituencies", out.year, out.gdf>>,
             <<"load_results_csv", out.year, out.df>>}
      [] out.view = "render_constituency_data" ->
            {<<"load_constituencies", "2024", out.pcon_gdf>>}
            \cup (IF out.lsoas = NotCalled THEN {} ELSE {<<"load_lsoas", "", out.lsoas>>})
      [] OTHER -> {}

FirstReturned(r) == IF r[1] = "load_lsoas" THEN first.load_lsoas ELSE first[r[1]][r[2]]

\* C5: over any sequence of passes no source is read more than once for a
\* loader argument, and every load returns what the first load of that
\* argument returned, also after a caller renamed the columns of the results
\* table an earlier load returned.
C5_CacheReadThroughWriteOnce ==
    /\ \A s \in Reads : fetched[s] <= 1
    /\ \A r \in Returned : r[3] = FirstReturned(r)
    /\ (out # Idle /\ "load_data" \in out.cached /\ out.status = "rendered") =>
          (HasCol(out.df, "ONS ID") /\ ~HasCol(out.df, "ons_id"))

\* C5's case: create_election_map_app rendered the map from a cache hit, so an
\* earlier pass has renamed the columns of the table it got
C5_Witness ==
    /\ out.view = "create_election_map_app"
    /\ out.status = "rendered"
    /\ "load_data" \in out.cached
    /\ fetched[<<"csv", out.year>>] = 1
    /\ HasCol(out.df, "ONS ID")

-----------------------------------------------------------------------------
(* What the claims on the drill-down view speak of *)

PconSrc == world.remote[URL2024]
LsoaSrc == world.remote[LSOA_GEOJSON_URL]

\* the last pass was a pass of view 2 that got as far as deciding the selection
Selecting ==
    /\ out.view = "render_constituency_data"
    /\ out.exit \notin {"aborted", "no_constituencies"}

\* the properties with a constituency code that the click info carries
Carried ==
    {o.properties : o \in {x \in {out.click_info.last_object_clicked,
                                   out.click_info.last_active_drawing} :
                              /\ out.click_info.is_dict
                              /\ x.clicked
                              /\ "PCON24CD" \in x.properties.has
                              /\ Truthy(x.properties.code)}}

\* the code of the first constituency of the collection with the name
CodeOfName(name) ==
    LET rows == PconSrc.data.rows
        i == CHOOSE i \in 1..Len(rows) :
                /\ rows[i][2] = name
                /\ \A j \in 1..(i - 1) : rows[j][2] # name
    IN  rows[i][1]

\* C6: with a click carrying a constituency code the selected code and name
\* are the clicked feature's, whether or not the fallback button was pressed;
\* the fallback choice decides the selection only when the button is pressed
\* and no click carrying a code is present.
C6_ClickBeatsFallback ==
    Selecting =>
        /\ Carried # {} =>
              \E p \in Carried : out.selected_code = p.code /\ out.selected_name = p.name
        /\ (Carried = {} /\ out.use_fallback) =>
              /\ out.selected_name = out.chosen_name
              /\ out.selected_code = CodeOfName(out.chosen_name)
        /\ (Carried = {} /\ ~out.use_fallback) =>
              out.selected_code = PyNone /\ out.selected_name = PyNone

\* C6's case: a click on A1 and the fallback button pressed for the other
\* constituency in the same pass
C6_Witness ==
    /\ Selecting
    /\ out.use_fallback
    /\ out.chosen_name = NameOf("A2")
    /\ \E p \in Carried : p.code = "A1"
    /\ out.selected_code = "A1"
    /\ out.selected_name = NameOf("A1")

\* the state of the drill-down state machine the pass ended in
DrillState ==
    CASE out.exit \in {"no_constituencies", "no_selection"} -> "NoSelection"
      [] out.exit = "detail_map" -> "Resolved"
      [] out.exit = "no_lsoas_found" -> "Empty"
      [] out.exit \in {"not_found", "no_lsoas_layer", "sjoin_failed"} -> "Failed"
      [] OTHER -> "Aborted"

\* the rows of the constituency collection with the selected code
SelectedRows ==
    {i \in 1..Len(PconSrc.data.rows) : PconSrc.data.rows[i][1] = out.selected_code}
\* LSOA row l shares a point with row i of the constituency collection
Touches(l, i) == LsoaSrc.data.rows[l][3] \cap PconSrc.data.rows[i][3] # {}
\* the rows of the LSOA layer that share a point with the selected region
Inside == {l \in 1..Len(LsoaSrc.data.rows) : \E i \in SelectedRows : Touches(l, i)}
\* the spatial join cannot run on the layer
FilterErrors == "index_right" \in {LsoaSrc.data.cols[k] : k \in 1..Len(LsoaSrc.data.cols)}
\* a selection has been made of a constituency of the collection
RegionSelected == Selecting /\ Truthy(out.selected_code) /\ SelectedRows # {}

\* C7 as stated: a selected region outside the layer's coverage (layer loaded,
\* no intersecting row) ends in Empty with zero rows, never in Failed; Failed
\* is reached only when the LSOA load or the spatial filter errors; Resolved
\* only when the subset is non-empty.
C7_OutsideCoverageIsEmpty ==
    (out.view = "render_constituency_data") =>
        /\ (RegionSelected /\ LsoaSrc.kind = "ok" /\ ~FilterErrors /\ Inside = {}) =>
              DrillState = "Empty" /\ out.lsoas_in.rows = <<>>
        /\ DrillState = "Failed" => (LsoaSrc.kind = "exc" \/ FilterErrors)
        /\ DrillState = "Resolved" => out.lsoas_in.rows # <<>>

\* C7 amended: a selected region outside the coverage of a loaded layer that
\* has rows ends in Empty with zero rows ('No LSOAs found', no detail map),
\* never in Failed; Failed is reached only when the LSOA load errors or yields
\* a layer without rows, when the spatial filter errors, or when the selected
\* code is not in the constituency collection; Resolved only when the subset
\* is non-empty.
C7_OutsideLoadedLayerIsEmpty ==
    (out.view = "render_constituency_data") =>
        /\ (/\ RegionSelected
            /\ LsoaSrc.kind = "ok"
            /\ LsoaSrc.data.rows # <<>>
            /\ ~FilterErrors
            /\ Inside = {}) =>
              /\ DrillState = "Empty"
              /\ out.lsoas_in.rows = <<>>
              /\ Shown("warning: No LSOAs found. This likely means the constituency is outside England & Wales.")
        /\ DrillState = "Failed" =>
              \/ LsoaSrc.kind = "exc"
              \/ LsoaSrc.data.rows = <<>>
              \/ FilterErrors
              \/ (Truthy(out.selected_code) /\ SelectedRows = {})
        /\ DrillState = "Resolved" => (out.lsoas_in.rows # <<>> /\ Inside # {})
        /\ DrillState # "Aborted"

\* C7's case: the selected constituency shares no point with any row of a
\* loaded layer
C7_Witness ==
    /\ RegionSelected
    /\ LsoaSrc.kind = "ok"
    /\ Len(LsoaSrc.data.rows) = 2
    /\ Inside = {}
    /\ out.exit = "no_lsoas_found"

\* the LSOA part of row j of the subset
LsoaPart(j) == SubSeq(out.lsoas_in.rows[j], 1, Len(LsoaSrc.data.cols))
\* the rows of the subset that are LSOA row l
CopiesOf(l) == {j \in 1..Len(out.lsoas_in.rows) : LsoaPart(j) = LsoaSrc.data.rows[l]}
\* the spatial filter ran
Filtered == RegionSelected /\ out.exit \in {"no_lsoas_found", "detail_map"}

\* C8 as stated: the subset is exactly the rows of the layer that share a point
\* with the selected region, each once and no other, also when several rows of
\* the constituency collection have the selected code.
C8_SubsetEachRowOnce ==
    Filtered =>
        /\ \A j \in 1..Len(out.lsoas_in.rows) : \E l \in Inside : j \in CopiesOf(l)
        /\ \A l \in 1..Len(LsoaSrc.data.rows) :
              Cardinality(CopiesOf(l)) = (IF l \in Inside THEN 1 ELSE 0)

\* C8 amended: the subset holds exactly the rows of the layer that share a
\* point with the selected region and no other row, each once for every row of
\* the constituency collection with the selected code that it shares a point
\* with; so each once when one row has the selected code.
C8_SubsetOncePerSelectedRow ==
    Filtered =>
        /\ \A j \in 1..Len(out.lsoas_in.rows) : \E l \in Inside : j \in CopiesOf(l)
        /\ \A l \in 1..Len(LsoaSrc.data.rows) :
              Cardinality(CopiesOf(l)) = Cardinality({i \in SelectedRows : Touches(l, i)})
        /\ Cardinality(SelectedRows) = 1 =>
              \A l \in 1..Len(LsoaSrc.data.rows) :
                  Cardinality(CopiesOf(l)) = (IF l \in Inside THEN 1 ELSE 0)

\* C8's case: of two LSOAs one shares a point with the selected constituency
\* and is the whole subset
C8_Witness ==
    /\ Filtered
    /\ Cardinality(SelectedRows) = 1
    /\ Len(LsoaSrc.data.rows) = 2
    /\ Cardinality(Inside) = 1
    /\ Len(out.lsoas_in.rows) = 1

\* the exit a pass takes for a selected code, from the data alone
ExitFor(code) ==
    IF ~Truthy(code) THEN "no_selection"
    ELSE IF \A i \in 1..Len(PconSrc.data.rows) : PconSrc.data.rows[i][1] # code
    THEN "not_found"
    ELSE IF LsoaSrc.kind = "exc" \/ LsoaSrc.data.rows = <<>> THEN "no_lsoas_layer"
    ELSE IF FilterErrors THEN "sjoin_failed"
    ELSE IF \A l \in 1..Len(LsoaSrc.data.rows) :
               \A i \in 1..Len(PconSrc.data.rows) :
                   PconSrc.data.rows[i][1] = code => ~Touches(l, i)
    THEN "no_lsoas_found"
    ELSE "detail_map"

\* the selection the interaction input of the pass stands for
SelectionOf(click_info, chosen_name, use_fallback) ==
    LET objs == {x \in {click_info.last_object_clicked, click_info.last_active_drawing} :
                    /\ click_info.is_dict
                    /\ x.clicked
                    /\ "PCON24CD" \in x.properties.has
                    /\ Truthy(x.properties.code)}
    IN  IF objs # {}
        THEN {<<o.properties.code, o.properties.name>> : o \in objs}
        ELSE IF use_fallback THEN {<<CodeOfName(chosen_name), chosen_name>>}
        ELSE {<<PyNone, PyNone>>}

\* C10: the selection of a pass is one (code, name) pair, both from the click
\* or both from the fallback choice, and it and the state the pass ends in
\* follow from the pass's interaction input and the loaded data alone, whatever
\* passes came before and whether or not the loaders were served from the
\* cache; a pass with neither a click carrying a code nor a pressed fallback
\* button is in NoSelection and loads no LSOA layer.
C10_SelectionFreshEachPass ==
    (out.view = "render_constituency_data") =>
        /\ (PconSrc.kind = "exc" \/ PconSrc.data.rows = <<>>) =>
              /\ out.exit = "no_constituencies"
              /\ out.selected_code = PyNone /\ out.selected_name = PyNone
              /\ out.lsoas = NotCalled
        /\ (PconSrc.kind = "ok" /\ PconSrc.data.rows # <<>>) =>
              /\ <<out.selected_code, out.selected_name>>
                    \in SelectionOf(out.click_info, out.chosen_name, out.use_fallback)
              /\ out.exit = ExitFor(out.selected_code)
              /\ (Carried = {} /\ ~out.use_fallback) =>
                    /\ DrillState = "NoSelection"
                    /\ out.lsoas = NotCalled
                    /\ out.lsoas_in = None
        /\ out.lsoas = NotCalled => "load_lsoas" \notin out.cached

\* C10's case: a later pass, served from the caches, that resolved a selection
C10_Witness ==
    /\ out.view = "render_constituency_data"
    /\ out.cached = {"load_constituencies", "load_lsoas"}
    /\ out.exit = "detail_map"
    /\ out.use_fallback
    /\ Carried = {}



-----------------------------------------------------------------------------
(* What the claim on the two variants of the election view speaks of *)

\* what a pass shows: the warning, or the map's features, each with its
\* boundary code, party_name and colour
Page(status, merged, year) ==
    IF status = "rendered"
    THEN [status |-> status,
          features |-> [j \in 1..Len(merged.rows) |->
                           <<merged.rows[j][ColIdx(merged, ELECTION_DATA[year].geo_code_col)],
                             merged.rows[j][ColIdx(merged, "party_name")],
                             merged.rows[j][ColIdx(merged, "color")]>>]]
    ELSE [status |-> status, features |-> <<>>]

\* what the last pass showed
PageShown == Page(out.status, out.merged, out.year)

\* what a pass of extended_app.py's election view shows for the year in a
\* process of its own on the same sources
ExtendedAppPage(year) ==
    LET gdf == load_constituencies(year).value
        df == load_results_csv(year).value
    IN  IF gdf.kind = "Raise" \/ df.kind = "Raise" THEN Page("aborted", None, year)
        ELSE IF gdf = None \/ df = None THEN Page("warning", None, year)
        ELSE Page("rendered", extended_app_frames(gdf, df, year).merged, year)

\* what a pass of election_map.py can show for the year in a process of its
\* own on the same sources, one page for each behaviour of the in-place fill
ElectionMapPages(year) ==
    LET ret == load_data(year).value
    IN  IF ret.kind = "Raise" THEN {Page("aborted", None, year)}
        ELSE IF ret.gdf = None \/ ret.df = None THEN {Page("warning", None, year)}
        ELSE {Page("rendered", election_map_frames(ret, year, w).merged, year) :
                 w \in BOOLEAN}

\* page p with every missing party_name read as 'Others'
LabelsFilled(p) ==
    [p EXCEPT !.features = [j \in 1..Len(p.features) |->
                               IF p.features[j][2] = NaN
                               THEN [p.features[j] EXCEPT ![2] = "Others"]
                               ELSE p.features[j]]]

\* C11: for the same registered year and the same outcomes of the boundary
\* fetch and the results read, create_election_map_app and
\* render_election_map either both stop with the 'Could not load all data'
\* warning or both render a map whose features have the same boundary code,
\* party_name and colour.
C11_ElectionViewsEquivalent ==
    /\ out.view = "create_election_map_app" =>
          /\ PageShown = ExtendedAppPage(out.year)
          /\ out.status \in {"warning", "rendered"}
          /\ out.status = "warning" =>
                Shown("warning: Could not load all data. The map cannot be displayed.")
    /\ out.view = "render_election_map" =>
          /\ \A p \in ElectionMapPages(out.year) : p = PageShown
          /\ out.status \in {"warning", "rendered"}
          /\ out.status = "warning" =>
                Shown("warning: Could not load all data. The map cannot be displayed.")

\* C11's case: both variants render the end-to-end scenario, where A2 has no
\* result row
C11_Witness ==
    /\ Rendered
    /\ Len(out.merged.rows) = 2
    /\ Feature(1) = <<"A1", "Lab", "#E4003B">>
    /\ Feature(2)[1] = "A2"
    /\ Feature(2)[3] = "#808080"
    /\ JLabel(2) = NaN
    /\ ExtendedAppPage(out.year).status = "rendered"
    /\ \A p \in ElectionMapPages(out.year) : p.status = "rendered"

\* what the two variants do agree on: both stop with the warning or both
\* render, with the same features in the same order, each with the same
\* boundary code and colour, and the same party_name but for a missing label,
\* which render_election_map shows as 'Others' always and
\* create_election_map_app only where the in-place fill is applied
ElectionViewsAgreeButMissingLabels ==
    /\ out.view = "create_election_map_app" =>
          LabelsFilled(PageShown) = ExtendedAppPage(out.year)
    /\ out.view = "render_election_map" =>
          /\ \A p \in ElectionMapPages(out.year) : LabelsFilled(p) = PageShown
          /\ \E p \in ElectionMapPages(out.year) : p = PageShown

====
